---- MODULE Spec2Model ----
(***************************************************************************)
(* Model of the onedrive client library: the token store (utils.go), the   *)
(* constructor New with its interactive OAuth2 authorization-code flow,    *)
(* the authenticated Get and the three API operations (onedrive.go), and   *)
(* the response-error types and codeIsError (package onedrive part of      *)
(* examples/try.go).                                                       *)
(*                                                                         *)
(* Spec: one process calls New(tokenFileName) up to MaxCalls times for one *)
(* token file; log.Fatal terminates the process (pc = "Failed").           *)
(* SpecApi: a client New returned serves up to MaxOps requests.            *)
(* SpecStore: writeTokenToFile followed by readTokenFromFile on one file.  *)
(* SpecErr: Error() on a RespError decoded from a failure body.            *)
(* The file system, standard input, the token endpoint and the Graph API   *)
(* are the environment: their answers are chosen nondeterministically      *)
(* from small sets.                                                        *)
(*                                                                         *)
(* Strings that are compared or encoded character by character (the state  *)
(* parameter, the authorization code) are sequences of indices into the    *)
(* URL-safe base64 alphabet; Pad stands for '='.                           *)
(***************************************************************************)
EXTENDS Integers, Sequences, FiniteSets, TLC

VARIABLES
    pc,              \* where the process is: "Idle" between calls, a step of New,
                     \* a step of the token store, or "Failed" after log.Fatal
    file,            \* the file at tokenFileName
    token,           \* New's token
    state,           \* New's state
    authURL,         \* the authorization URL printed, Nil before
    responseString,  \* the line read from standard input
    responseURL,     \* the query of the parsed response URL
    client,          \* the client New returned last, Nil before
    calls,           \* calls of New so far
    trace,           \* the steps of the current call of New, in order
    flow,            \* the authorization flow's state in the current call
    entryFile,       \* the file as the current call of New found it
    exchanged,       \* what conf.Exchange returned in the current call
    obtained,        \* the token the last completed flow handed to writeTokenToFile
    ops,             \* requests made so far
    requests,        \* the URLs the last operation requested
    result           \* what the last operation returned

vars == <<pc, file, token, state, authURL, responseString, responseURL,
          client, calls, trace, flow, entryFile, exchanged, obtained,
          ops, requests, result>>

newVars == <<token, state, authURL, responseString, responseURL,
             trace, flow, entryFile, exchanged, obtained>>

(* ---------------------------------------------------------------- bounds *)

\* Calls of New made by the one process.
MaxCalls == 2

\* Requests (Get and API operations) made through a returned client.
MaxOps == 2

(* ------------------------------------------------------------- constants *)

\* randomBytesBase64(32)
StateBytes == 32

\* The nil pointer / nil error.
Nil == [nil |-> TRUE]

(* ------------------------------------------------- oauth2.Token and JSON *)

\* An oauth2.Token; Expiry is the instant, 0 the zero time.Time.
Token(a, t, r, e) ==
    [AccessToken |-> a, TokenType |-> t, RefreshToken |-> r, Expiry |-> e]

\* &oauth2.Token{}
ZeroToken == Token("", "", "", 0)

AccessTokens == {"a1", "a2"}
TokenTypes == {"", "Bearer"}
RefreshTokens == {"", "r1"}
Expiries == {0, 1}

\* Tokens a successful exchange can return (the oauth2 package rejects a
\* response without access_token).
Tokens ==
    {Token(a, t, r, e) : a \in AccessTokens, t \in TokenTypes,
                         r \in RefreshTokens, e \in Expiries}

\* JSON values of a token file's object: a string, a time, a number (never the
\* type of a Token field), or the key is absent.
JStr(s) == [t |-> "str", s |-> s, n |-> 0]
JTime(i) == [t |-> "time", s |-> "", n |-> i]
JNum(i) == [t |-> "num", s |-> "", n |-> i]
JAbsent == [t |-> "absent", s |-> "", n |-> 0]

\* File contents: a JSON object over the Token keys, bytes that are no JSON
\* value, or nothing.
JObject(o) == [k |-> "json", obj |-> o]
Garbage == [k |-> "garbage"]
Empty == [k |-> "empty"]

\* json.NewEncoder(file).Encode(token) with the tags of oauth2.Token:
\* access_token, token_type (omitempty), refresh_token (omitempty), expiry.
Encode(tok) ==
    JObject([access_token  |-> JStr(tok.AccessToken),
             token_type    |-> IF tok.TokenType = "" THEN JAbsent
                               ELSE JStr(tok.TokenType),
             refresh_token |-> IF tok.RefreshToken = "" THEN JAbsent
                               ELSE JStr(tok.RefreshToken),
             expiry        |-> JTime(tok.Expiry)])

\* One string field of json.Decoder.Decode: absent keeps the zero value, a value
\* of another JSON type keeps it too and makes Decode return an error.
StrField(v) == IF v.t = "str" THEN v.s ELSE ""
StrFieldErr(v) == v.t \notin {"str", "absent"}
TimeField(v) == IF v.t = "time" THEN v.n ELSE 0
TimeFieldErr(v) == v.t \notin {"time", "absent"}

\* json.NewDecoder(file).Decode(token) into a fresh &oauth2.Token{}: the token
\* as filled in, and whether Decode returned an error.
Decode(content) ==
    IF content.k # "json"
    THEN [token |-> ZeroToken, err |-> TRUE]
    ELSE LET o == content.obj IN
         [token |-> Token(StrField(o.access_token), StrField(o.token_type),
                          StrField(o.refresh_token), TimeField(o.expiry)),
          err   |-> \/ StrFieldErr(o.access_token)
                    \/ StrFieldErr(o.token_type)
                    \/ StrFieldErr(o.refresh_token)
                    \/ TimeFieldErr(o.expiry)]

(* ------------------------------------------------------------ token file *)

\* The file at tokenFileName: whether it exists, whether it can be opened for
\* reading, whether it can be written (created, when it does not exist), and
\* its contents.
File(ex, rd, wr, c) ==
    [exists |-> ex, readable |-> rd, writable |-> wr, content |-> c]

\* Contents a token file can hold before the process starts.
StoredTokens == {Token("a1", "Bearer", "r1", 1), Token("a2", "", "", 0),
                 Token("", "Bearer", "", 1)}

InitialContents ==
    {Encode(t) : t \in StoredTokens}
    \cup {Garbage, Empty,
          JObject([access_token |-> JNum(5), token_type |-> JStr("Bearer"),
                   refresh_token |-> JAbsent, expiry |-> JAbsent])}

InitialFiles ==
    {File(FALSE, FALSE, wr, Empty) : wr \in BOOLEAN}
    \cup {File(TRUE, rd, wr, c) : rd \in BOOLEAN, wr \in BOOLEAN,
                                  c \in InitialContents}

\* A readTokenFromFile that returns the token only with an error.
readTokenFromFileNilOnValid(f) ==
    IF ~(f.exists /\ f.readable)
    THEN [token |-> Nil, err |-> TRUE]
    ELSE IF Decode(f.content).err
         THEN [token |-> Decode(f.content).token, err |-> TRUE]
         ELSE [token |-> Nil, err |-> FALSE]

\* readTokenFromFile: (nil, err) when os.Open fails, else the decoded token
\* together with Decode's error.
readTokenFromFile(f) ==
    IF ~(f.exists /\ f.readable)
    THEN [token |-> Nil, err |-> TRUE]
    ELSE [token |-> Decode(f.content).token, err |-> Decode(f.content).err]

\* os.Create opens with O_RDWR|O_CREATE|O_TRUNC: it fails when an existing
\* file cannot be opened for reading and writing, or a missing one cannot be
\* created; otherwise the file exists and is empty.
CreateFails(f) ==
    IF f.exists THEN ~(f.readable /\ f.writable) ELSE ~f.writable

Created(f) == File(TRUE, TRUE, TRUE, Empty)

\* What the file holds after Encode on the created file: the encoded token when
\* the write succeeds; nothing or a cut-off prefix when it fails.
FailedWrites == {Empty, Garbage}

\* writeTokenToFile past os.Create: the file after Encode, whose error is
\* dropped.  wok is whether the write succeeded, c what a failed write left.
writeTokenToFile(f, tok, wok, c) ==
    [Created(f) EXCEPT !.content = IF wok THEN Encode(tok) ELSE c]

(* ------------------------------------------------------ state parameter *)

Pad == 64

\* base64.URLEncoding.EncodeToString: three bytes give four characters; a
\* last group of one or two bytes is padded with '='.
RECURSIVE EncodeToString(_)
EncodeToString(b) ==
    IF Len(b) = 0 THEN <<>>
    ELSE IF Len(b) >= 3
    THEN LET v == b[1] * 65536 + b[2] * 256 + b[3] IN
         <<v \div 262144, (v \div 4096) % 64, (v \div 64) % 64, v % 64>>
         \o EncodeToString(SubSeq(b, 4, Len(b)))
    ELSE IF Len(b) = 2
    THEN LET v == b[1] * 65536 + b[2] * 256 IN
         <<v \div 262144, (v \div 4096) % 64, (v \div 64) % 64, Pad>>
    ELSE LET v == b[1] * 65536 IN
         <<v \div 262144, (v \div 4096) % 64, Pad, Pad>>

\* Values rand.Read fills the buffer with.
RandByteValues == {0, 255}

RandomBuffers(n) == {[i \in 1..n |-> v] : v \in RandByteValues}

\* randomBytesBase64(n): the strings it can return.
randomBytesBase64(n) == {EncodeToString(b) : b \in RandomBuffers(n)}

(* ------------------------------------------------------- the callback URL *)

\* The authorization code in a callback URL.
Code1 == <<2, 53>>

\* A line typed on standard input, after TrimSpace: whether url.Parse accepts
\* it and the key/value pairs of its query string, in order.
Line(ok, q) == [parseOk |-> ok, query |-> q]

\* responseURL.Query().Get(key): the first value of key, "" when there is none.
RECURSIVE QueryGet(_, _)
QueryGet(q, key) ==
    IF Len(q) = 0 THEN <<>>
    ELSE IF q[1][1] = key THEN q[1][2]
    ELSE QueryGet(Tail(q), key)

\* Lines the user can enter in a flow whose state is s: the genuine callback,
\* and callbacks whose state is missing, empty, cut short, another flow's, or
\* shadowed by an earlier state parameter.
OtherStates(s) == (randomBytesBase64(StateBytes) \ {s})
                  \cup {<<>>, SubSeq(s, 1, Len(s) - 1)}

Lines(s) ==
    {Line(FALSE, <<>>), Line(TRUE, <<>>),
     Line(TRUE, <<<<"state", s>>, <<"code", Code1>>>>),
     Line(TRUE, <<<<"code", Code1>>, <<"state", s>>>>),
     Line(TRUE, <<<<"state", s>>>>),
     Line(TRUE, <<<<"code", Code1>>>>)}
    \cup {Line(TRUE, <<<<"state", o>>, <<"code", Code1>>>>) : o \in OtherStates(s)}
    \cup {Line(TRUE, <<<<"state", o>>, <<"state", s>>, <<"code", Code1>>>>) :
            o \in OtherStates(s)}

\* A comparison that lets a response without state through.
StateMismatchLax(responseState, st) ==
    responseState # st /\ responseState # <<>>

\* The comparison of line 356: the flow goes on only when it is FALSE.
StateMismatch(responseState, st) == responseState # st

(* -------------------------------------------------------------- exchange *)

\* conf.Exchange(ctx, code): an error, or a token.
ExchangeResults == {[token |-> Nil, err |-> TRUE]}
                   \cup {[token |-> t, err |-> FALSE] : t \in Tokens}

\* A check that never sees Exchange's error.
ExchangeFailedNever(res) == FALSE

\* The check of line 365.
ExchangeFailed(res) == res.err

(* ------------------------------------------------------------------ Init *)

Init ==
    /\ pc = "Idle"
    /\ file \in InitialFiles
    /\ token = Nil
    /\ state = <<>>
    /\ authURL = Nil
    /\ responseString = Nil
    /\ responseURL = Nil
    /\ client = Nil
    /\ calls = 0
    /\ trace = <<>>
    /\ flow = "None"
    /\ entryFile = file
    /\ exchanged = Nil
    /\ obtained = Nil
    /\ ops = 0
    /\ requests = <<>>
    /\ result = Nil

(* ------------------------------------------------------------------- New *)

\* log.Fatal (and log.Panic): the process ends and New does not return.
Fatal ==
    /\ pc' = "Failed"
    /\ flow' = "Failed"

\* A caller invokes New(tokenFileName): lines 308-322.
CallNew ==
    /\ pc = "Idle"
    /\ calls < MaxCalls
    /\ pc' = "Load"
    /\ calls' = calls + 1
    /\ token' = Nil
    /\ state' = <<>>
    /\ authURL' = Nil
    /\ responseString' = Nil
    /\ responseURL' = Nil
    /\ trace' = <<>>
    /\ flow' = "None"
    /\ entryFile' = file
    /\ exchanged' = Nil
    /\ UNCHANGED <<file, client, obtained, ops, requests, result>>

\* A load without the test of line 327: the client is built whatever
\* readTokenFromFile returned.
NewLoadNoNilCheck ==
    /\ pc = "Load"
    /\ token' = readTokenFromFile(file).token
    /\ trace' = Append(trace, "load")
    /\ pc' = "BuildClient"
    /\ flow' = flow
    /\ UNCHANGED <<file, state, authURL, responseString, responseURL, client,
                   calls, entryFile, exchanged, obtained, ops, requests, result>>

\* Lines 324-327: token, _ := readTokenFromFile(tokenFileName); if token == nil.
NewLoad ==
    /\ pc = "Load"
    /\ token' = readTokenFromFile(file).token
    /\ trace' = Append(trace, "load")
    /\ IF token' = Nil
       THEN pc' = "GenState" /\ flow' = "NoToken"
       ELSE pc' = "BuildClient" /\ flow' = flow
    /\ UNCHANGED <<file, state, authURL, responseString, responseURL, client,
                   calls, entryFile, exchanged, obtained, ops, requests, result>>

\* Line 331: state := randomBytesBase64(32); when rand.Read fails,
\* randomBytesBase64 panics (utils.go 36-39) and New does not return.
NewGenState ==
    /\ pc = "GenState"
    /\ trace' = Append(trace, "state")
    /\ \/ /\ Fatal
          /\ UNCHANGED state
       \/ /\ state' \in randomBytesBase64(StateBytes)
          /\ pc' = "AuthURL"
          /\ flow' = flow
    /\ UNCHANGED <<file, token, authURL, responseString, responseURL, client,
                   calls, entryFile, exchanged, obtained, ops, requests, result>>

\* Lines 334-342: the authorization URL, carrying state, is printed and the
\* user is asked for the response URL.
NewPrintAuthURL ==
    /\ pc = "AuthURL"
    /\ authURL' = [state |-> state, access_type |-> "offline"]
    /\ trace' = Append(trace, "print")
    /\ pc' = "ReadLine"
    /\ flow' = "AwaitingUserRedirect"
    /\ UNCHANGED <<file, token, state, responseString, responseURL, client,
                   calls, entryFile, exchanged, obtained, ops, requests, result>>

\* Lines 343-347: one line is read from standard input; a read error is fatal.
NewReadLine ==
    /\ pc = "ReadLine"
    /\ trace' = Append(trace, "read")
    /\ \/ /\ Fatal
          /\ UNCHANGED responseString
       \/ /\ responseString' \in Lines(state)
          /\ pc' = "Parse"
          /\ flow' = flow
    /\ UNCHANGED <<file, token, state, authURL, responseURL, client,
                   calls, entryFile, exchanged, obtained, ops, requests, result>>

\* Lines 350-353: url.Parse(responseString); a parse error is fatal.
NewParse ==
    /\ pc = "Parse"
    /\ trace' = Append(trace, "parse")
    /\ IF ~responseString.parseOk
       THEN Fatal /\ UNCHANGED responseURL
       ELSE /\ responseURL' = responseString.query
            /\ pc' = "CheckState"
            /\ flow' = flow
    /\ UNCHANGED <<file, token, state, authURL, responseString, client,
                   calls, entryFile, exchanged, obtained, ops, requests, result>>

\* A state check that asks for the response URL again after a mismatch.
NewCheckStateRetry ==
    /\ pc = "CheckState"
    /\ trace' = Append(trace, "check")
    /\ IF StateMismatch(QueryGet(responseURL, "state"), state)
       THEN pc' = "ReadLine" /\ flow' = flow
       ELSE pc' = "Exchange" /\ flow' = "ExchangingCode"
    /\ UNCHANGED <<file, token, state, authURL, responseString, responseURL,
                   client, calls, entryFile, exchanged, obtained, ops, requests, result>>

\* Lines 355-358: the state of the response is compared with the generated one.
NewCheckState ==
    /\ pc = "CheckState"
    /\ trace' = Append(trace, "check")
    /\ IF StateMismatch(QueryGet(responseURL, "state"), state)
       THEN Fatal
       ELSE pc' = "Exchange" /\ flow' = "ExchangingCode"
    /\ UNCHANGED <<file, token, state, authURL, responseString, responseURL,
                   client, calls, entryFile, exchanged, obtained, ops, requests, result>>

\* Lines 361-367: token, err = conf.Exchange(ctx, code); an error is fatal.
NewExchange ==
    /\ pc = "Exchange"
    /\ trace' = Append(trace, "exchange")
    /\ \E res \in ExchangeResults :
          /\ token' = res.token
          /\ exchanged' = res
          /\ IF ExchangeFailed(res)
             THEN Fatal
             ELSE pc' = "Save" /\ flow' = flow
    /\ UNCHANGED <<file, state, authURL, responseString, responseURL, client,
                   calls, entryFile, obtained, ops, requests, result>>

\* Line 370 and writeTokenToFile (utils.go 63-75): os.Create, fatal when it
\* fails; then Encode, whose error is not looked at.
NewSave ==
    /\ pc = "Save"
    /\ IF CreateFails(file)
       THEN /\ Fatal
            /\ trace' = Append(trace, "create-failed")
            /\ UNCHANGED <<file, obtained>>
       ELSE /\ \E wok \in BOOLEAN, c \in FailedWrites :
                 /\ file' = writeTokenToFile(file, token, wok, c)
                 /\ trace' = trace \o <<"create", IF wok THEN "encode"
                                                   ELSE "encode-failed">>
            /\ obtained' = token
            /\ pc' = "BuildClient"
            /\ flow' = "TokenObtained"
    /\ UNCHANGED <<token, state, authURL, responseString, responseURL, client,
                   calls, entryFile, exchanged, ops, requests, result>>

\* Lines 374-376: client.httpClient = conf.Client(ctx, token); return client.
NewBuildClient ==
    /\ pc = "BuildClient"
    /\ trace' = Append(trace, "client")
    /\ client' = [token |-> token]
    /\ pc' = "Idle"
    /\ UNCHANGED <<file, token, state, authURL, responseString, responseURL,
                   calls, flow, entryFile, exchanged, obtained, ops, requests, result>>

(* ------------------------------------------------------- response bodies *)

\* JSON values of a response body: objects, arrays, and the scalars above.
JObj(o) == [t |-> "obj", o |-> o]
JArr(a) == [t |-> "arr", a |-> a]

\* A response body: a JSON value, or bytes that are no JSON value.
JBody(v) == [k |-> "json", v |-> v]
Malformed == [k |-> "malformed"]
NoBody == [k |-> "nil"]

\* A JSON object of a response, over the keys the result types read.
Fields(id, driveType, quota, name, value, error) ==
    JObj([id |-> id, driveType |-> driveType, quota |-> quota, name |-> name,
          value |-> value, error |-> error])

JQuota(total, used) == JObj([total |-> JNum(total), used |-> JNum(used)])

JInner(requestId, date) == JObj([requestId |-> requestId, date |-> date])

JErr(code, message, inner) ==
    JObj([code |-> code, message |-> message, innerError |-> inner])

DriveFixture ==
    Fields(JStr("d1"), JStr("personal"), JQuota(10, 3), JAbsent, JAbsent, JAbsent)

DriveNoQuota ==
    Fields(JStr("d2"), JStr("business"), JAbsent, JAbsent, JAbsent, JAbsent)

ItemFixture ==
    Fields(JStr("i1"), JAbsent, JAbsent, JStr("a.txt"), JAbsent, JAbsent)

BadDrive ==
    Fields(JNum(7), JStr("personal"), JAbsent, JAbsent, JAbsent, JAbsent)

ErrorFixture ==
    Fields(JAbsent, JAbsent, JAbsent, JAbsent, JAbsent,
           JErr(JStr("TooManyRequests"), JStr("slow down"),
                JInner(JStr("abc"), JStr("2024-01-01"))))

Bodies ==
    {JBody(DriveFixture), JBody(DriveNoQuota), JBody(BadDrive),
     JBody(Fields(JAbsent, JAbsent, JAbsent, JAbsent,
                  JArr(<<DriveFixture, DriveNoQuota>>), JAbsent)),
     JBody(Fields(JAbsent, JAbsent, JAbsent, JAbsent,
                  JArr(<<ItemFixture>>), JAbsent)),
     JBody(Fields(JAbsent, JAbsent, JAbsent, JAbsent,
                  JArr(<<BadDrive>>), JAbsent)),
     JBody(ErrorFixture),
     JBody(JArr(<<>>)),
     Malformed}

NumField(v) == IF v.t = "num" THEN v.n ELSE 0
NumFieldErr(v) == v.t \notin {"num", "absent"}

\* Drive (onedrive.go 76-112): Id, DriveType and the optional Quota.
Drive(id, driveType, quota) ==
    [Id |-> id, DriveType |-> driveType, Quota |-> quota]

ZeroDrive == Drive("", "", Nil)

\* Quota (onedrive.go 51-72): Total and Used.
UnmarshalQuota(v) ==
    IF v.t = "obj"
    THEN [Total |-> NumField(v.o.total), Used |-> NumField(v.o.used)]
    ELSE Nil

QuotaErr(v) ==
    IF v.t = "obj"
    THEN NumFieldErr(v.o.total) \/ NumFieldErr(v.o.used)
    ELSE v.t # "absent"

\* json.Unmarshal of one JSON value into a Drive: the value as filled in and
\* whether an error is returned.
UnmarshalDrive(v) ==
    IF v.t # "obj"
    THEN [val |-> ZeroDrive, err |-> TRUE]
    ELSE [val |-> Drive(StrField(v.o.id), StrField(v.o.driveType),
                        UnmarshalQuota(v.o.quota)),
          err |-> \/ StrFieldErr(v.o.id)
                  \/ StrFieldErr(v.o.driveType)
                  \/ QuotaErr(v.o.quota)]

\* DriveItem (onedrive.go 192-233): Id and Name.
DriveItem(id, name) == [Id |-> id, Name |-> name]

UnmarshalDriveItem(v) ==
    IF v.t # "obj"
    THEN [val |-> DriveItem("", ""), err |-> TRUE]
    ELSE [val |-> DriveItem(StrField(v.o.id), StrField(v.o.name)),
          err |-> StrFieldErr(v.o.id) \/ StrFieldErr(v.o.name)]

\* Drives and DriveItems (onedrive.go 235-241): the slice under "value".
ZeroList == [Value |-> <<>>]

UnmarshalDrives(v) ==
    IF v.t # "obj"
    THEN [val |-> ZeroList, err |-> TRUE]
    ELSE IF v.o.value.t # "arr"
    THEN [val |-> ZeroList, err |-> v.o.value.t # "absent"]
    ELSE LET a == v.o.value.a IN
         [val |-> [Value |-> [i \in 1..Len(a) |-> UnmarshalDrive(a[i]).val]],
          err |-> \E i \in 1..Len(a) : UnmarshalDrive(a[i]).err]

UnmarshalDriveItems(v) ==
    IF v.t # "obj"
    THEN [val |-> ZeroList, err |-> TRUE]
    ELSE IF v.o.value.t # "arr"
    THEN [val |-> ZeroList, err |-> v.o.value.t # "absent"]
    ELSE LET a == v.o.value.a IN
         [val |-> [Value |-> [i \in 1..Len(a) |-> UnmarshalDriveItem(a[i]).val]],
          err |-> \E i \in 1..Len(a) : UnmarshalDriveItem(a[i]).err]

(* -------------------------------------------------------- response error *)

\* codeIsError (package onedrive part of examples/try.go, 246-259).
errorCodes == <<400, 401, 403, 404, 405, 406, 409, 410, 411, 412, 413, 415,
                416, 422, 423, 429, 500, 501, 503, 504, 507, 509>>

codeIsError(code) == \E i \in 1..Len(errorCodes) : errorCodes[i] = code

\* InnerError, Err and RespError (225-238) as json.Unmarshal fills them from a
\* body: the pointers stay nil when their object is absent.
UnmarshalInnerError(v) ==
    IF v.t = "obj"
    THEN [RequestId |-> StrField(v.o.requestId), Date |-> StrField(v.o.date)]
    ELSE Nil

UnmarshalErr(v) ==
    IF v.t = "obj"
    THEN [Code |-> StrField(v.o.code), Message |-> StrField(v.o.message),
          InnerError |-> UnmarshalInnerError(v.o.innerError)]
    ELSE Nil

UnmarshalRespError(body) ==
    IF body.k = "json" /\ body.v.t = "obj"
    THEN [Err |-> UnmarshalErr(body.v.o.error)]
    ELSE [Err |-> Nil]

(* ------------------------------------------------------------------- Get *)

MyDriveURL == "https://graph.microsoft.com/v1.0/me/drive"
MyDrivesURL == "https://graph.microsoft.com/v1.0/me/drives"
RecentURL == "https://graph.microsoft.com/v1.0/me/drive/recent"

\* URLs a caller passes to Get.
URLs == {MyDriveURL, "https://graph.microsoft.com/v1.0/me"}

\* Status codes the service answers with: every code of errorCodes and codes
\* that are not in it.
Statuses == {errorCodes[i] : i \in 1..Len(errorCodes)}
            \cup {200, 204, 402, 502}

\* What c.httpClient.Get and ioutil.ReadAll meet: a transport error, a
\* response whose body breaks off while it is read, or a response read to
\* its end (every status with an error body and with a drive; 200 with every
\* body).
Outcomes ==
    {[k |-> "transport"]}
    \cup {[k |-> "readerr", status |-> s, body |-> Malformed] : s \in {200, 429}}
    \cup {[k |-> "ok", status |-> s, body |-> b] :
            s \in Statuses, b \in {JBody(ErrorFixture), JBody(DriveFixture)}}
    \cup {[k |-> "ok", status |-> 200, body |-> b] : b \in Bodies}

TransportError == [kind |-> "transport"]
ReadError == [kind |-> "read"]
DecodeError == [kind |-> "decode"]

\* Get (onedrive.go 243-256) on one outcome: the bytes and the error returned.
Get(out) ==
    IF out.k = "transport" THEN [body |-> NoBody, err |-> TransportError]
    ELSE IF out.k = "readerr" THEN [body |-> out.body, err |-> ReadError]
    ELSE [body |-> out.body, err |-> Nil]

\* json.Unmarshal(body, &v) for the three result types.
Unmarshal(kind, body) ==
    IF body.k # "json"
    THEN [val |-> IF kind = "Drive" THEN ZeroDrive ELSE ZeroList, err |-> TRUE]
    ELSE IF kind = "Drive" THEN UnmarshalDrive(body.v)
    ELSE IF kind = "Drives" THEN UnmarshalDrives(body.v)
    ELSE UnmarshalDriveItems(body.v)

\* An operation that goes on to json.Unmarshal although Get failed.
OperationIgnoresGetError(kind, out) ==
    LET g == Get(out) IN
    [value |-> Unmarshal(kind, g.body).val,
     err |-> IF Unmarshal(kind, g.body).err THEN DecodeError ELSE Nil]

\* The body shared by GetMyDrive, ListMyDrives and ListRecentFiles
\* (onedrive.go 258-292): the zero value and Get's error when Get fails, else
\* the unmarshalled value and Unmarshal's error.
Operation(kind, out) ==
    LET g == Get(out) IN
    IF g.err # Nil
    THEN [value |-> IF kind = "Drive" THEN ZeroDrive ELSE ZeroList,
          err |-> g.err]
    ELSE [value |-> Unmarshal(kind, g.body).val,
          err |-> IF Unmarshal(kind, g.body).err THEN DecodeError ELSE Nil]

GetMyDrive(out) == Operation("Drive", out)
ListMyDrives(out) == Operation("Drives", out)
ListRecentFiles(out) == Operation("DriveItems", out)

\* The endpoint each operation passes to Get.
Endpoint(op) ==
    IF op = "GetMyDrive" THEN MyDriveURL
    ELSE IF op = "ListMyDrives" THEN MyDrivesURL
    ELSE RecentURL

\* A caller invokes c.Get(url) on a client New returned.
ClientGet ==
    /\ pc = "Idle"
    /\ client # Nil
    /\ ops < MaxOps
    /\ \E url \in URLs, out \in Outcomes :
          /\ requests' = <<url>>
          /\ result' = [op |-> "Get", out |-> out, body |-> Get(out).body,
                        err |-> Get(out).err, value |-> Nil]
    /\ ops' = ops + 1
    /\ UNCHANGED <<pc, file, client, calls>>
    /\ UNCHANGED newVars

ClientGetMyDrive ==
    /\ pc = "Idle"
    /\ client # Nil
    /\ ops < MaxOps
    /\ \E out \in Outcomes :
          /\ requests' = <<Endpoint("GetMyDrive")>>
          /\ result' = [op |-> "GetMyDrive", out |-> out, body |-> Get(out).body,
                        err |-> GetMyDrive(out).err,
                        value |-> GetMyDrive(out).value]
    /\ ops' = ops + 1
    /\ UNCHANGED <<pc, file, client, calls>>
    /\ UNCHANGED newVars

ClientListMyDrives ==
    /\ pc = "Idle"
    /\ client # Nil
    /\ ops < MaxOps
    /\ \E out \in Outcomes :
          /\ requests' = <<Endpoint("ListMyDrives")>>
          /\ result' = [op |-> "ListMyDrives", out |-> out,
                        body |-> Get(out).body,
                        err |-> ListMyDrives(out).err,
                        value |-> ListMyDrives(out).value]
    /\ ops' = ops + 1
    /\ UNCHANGED <<pc, file, client, calls>>
    /\ UNCHANGED newVars

ClientListRecentFiles ==
    /\ pc = "Idle"
    /\ client # Nil
    /\ ops < MaxOps
    /\ \E out \in Outcomes :
          /\ requests' = <<Endpoint("ListRecentFiles")>>
          /\ result' = [op |-> "ListRecentFiles", out |-> out,
                        body |-> Get(out).body,
                        err |-> ListRecentFiles(out).err,
                        value |-> ListRecentFiles(out).value]
    /\ ops' = ops + 1
    /\ UNCHANGED <<pc, file, client, calls>>
    /\ UNCHANGED newVars

\* The client after New(tokenFileName) returned it for a file that holds a
\* stored token: the state the API operations start from.
InitApi ==
    /\ pc = "Idle"
    /\ \E t \in {Token("a1", "Bearer", "r1", 1), Token("a2", "", "", 0)} :
          /\ file = File(TRUE, TRUE, TRUE, Encode(t))
          /\ token = t
          /\ client = [token |-> t]
    /\ state = <<>>
    /\ authURL = Nil
    /\ responseString = Nil
    /\ responseURL = Nil
    /\ calls = 1
    /\ trace = <<"load", "client">>
    /\ flow = "None"
    /\ entryFile = file
    /\ exchanged = Nil
    /\ obtained = Nil
    /\ ops = 0
    /\ requests = <<>>
    /\ result = Nil

NextApi ==
    \/ ClientGet
    \/ ClientGetMyDrive
    \/ ClientListMyDrives
    \/ ClientListRecentFiles

SpecApi == InitApi /\ [][NextApi]_vars

(* ------------------------------------------------------- RespError.Error *)

\* What a call of Error ends in: the string returned, as the arguments of
\* Sprintf in order, or the panic of a nil pointer dereference.
Returned(text) == [panic |-> FALSE, text |-> text]
Panicked == [panic |-> TRUE, text |-> <<>>]

\* (e *RespError) Error() (try.go 240-244): e.Err and e.Err.InnerError are
\* dereferenced as they are.
Error(e) ==
    IF e.Err = Nil THEN Panicked
    ELSE IF e.Err.InnerError = Nil THEN Panicked
    ELSE Returned(<<"Code: ", e.Err.Code, " Message: ", e.Err.Message,
                    " RequestId: ", e.Err.InnerError.RequestId,
                    " Date: ", e.Err.InnerError.Date, "\n">>)

\* Failure bodies that decode into a RespError: JSON objects without "error",
\* and with an "error" object with or without code, message and innerError,
\* the innerError with or without request-id and date.
ErrorBodies ==
    {JBody(DriveFixture), JBody(DriveNoQuota)}
    \cup {JBody(Fields(JAbsent, JAbsent, JAbsent, JAbsent, JAbsent, x)) :
            x \in {JAbsent}
                  \cup {JErr(c, m, i) :
                          c \in {JAbsent, JStr("TooManyRequests"), JStr("itemNotFound")},
                          m \in {JAbsent, JStr("slow down"), JStr("not found")},
                          i \in {JAbsent}
                                \cup {JInner(r, d) :
                                        r \in {JAbsent, JStr("abc"), JStr("xyz")},
                                        d \in {JAbsent, JStr("2024-01-01"),
                                               JStr("2024-01-02")}}}}

\* A RespError decoded from a failure body, before Error is called on it.
InitErr ==
    /\ pc = "ErrorCall"
    /\ \E b \in ErrorBodies :
          result = [op |-> "Error", body |-> b, err |-> UnmarshalRespError(b),
                    message |-> Nil]
    /\ file = File(FALSE, FALSE, TRUE, Empty)
    /\ token = Nil
    /\ state = <<>>
    /\ authURL = Nil
    /\ responseString = Nil
    /\ responseURL = Nil
    /\ client = Nil
    /\ calls = 0
    /\ trace = <<>>
    /\ flow = "None"
    /\ entryFile = file
    /\ exchanged = Nil
    /\ obtained = Nil
    /\ ops = 0
    /\ requests = <<>>

\* A caller invokes Error() on the decoded RespError.
RespErrorError ==
    /\ pc = "ErrorCall"
    /\ result' = [result EXCEPT !.message = Error(result.err)]
    /\ pc' = "ErrorDone"
    /\ UNCHANGED <<file, client, calls, ops, requests>>
    /\ UNCHANGED newVars

NextErr == RespErrorError

SpecErr == InitErr /\ [][NextErr]_vars

(* ----------------------------------------------------------- token store *)

\* Tokens handed to writeTokenToFile.
StoreTokens == Tokens \cup StoredTokens \cup {ZeroToken}

\* The token store on its own: writeTokenToFile(p, t) for a token t and a
\* file p in any state, then readTokenFromFile(p).
InitStore ==
    /\ pc = "StoreWrite"
    /\ file \in InitialFiles
    /\ token \in StoreTokens
    /\ state = <<>>
    /\ authURL = Nil
    /\ responseString = Nil
    /\ responseURL = Nil
    /\ client = Nil
    /\ calls = 0
    /\ trace = <<>>
    /\ flow = "None"
    /\ entryFile = file
    /\ exchanged = Nil
    /\ obtained = Nil
    /\ ops = 0
    /\ requests = <<>>
    /\ result = Nil

\* writeTokenToFile(fileName, token), utils.go 63-75.
StoreWrite ==
    /\ pc = "StoreWrite"
    /\ IF CreateFails(file)
       THEN /\ Fatal
            /\ trace' = Append(trace, "create-failed")
            /\ UNCHANGED file
       ELSE /\ \E wok \in BOOLEAN, c \in FailedWrites :
                 /\ file' = writeTokenToFile(file, token, wok, c)
                 /\ trace' = trace \o <<"create", IF wok THEN "encode"
                                                   ELSE "encode-failed">>
            /\ pc' = "StoreRead"
            /\ flow' = flow
    /\ UNCHANGED <<token, state, authURL, responseString, responseURL, client,
                   calls, entryFile, exchanged, obtained, ops, requests, result>>

\* readTokenFromFile(fileName), utils.go 46-59.
StoreRead ==
    /\ pc = "StoreRead"
    /\ result' = readTokenFromFile(file)
    /\ trace' = Append(trace, "load")
    /\ pc' = "StoreDone"
    /\ UNCHANGED <<file, token, state, authURL, responseString, responseURL,
                   client, calls, flow, entryFile, exchanged, obtained, ops,
                   requests>>

NextStore ==
    \/ StoreWrite
    \/ StoreRead

SpecStore == InitStore /\ [][NextStore]_vars

Next ==
    \/ CallNew
    \/ NewLoad
    \/ NewGenState
    \/ NewPrintAuthURL
    \/ NewReadLine
    \/ NewParse
    \/ NewCheckState
    \/ NewExchange
    \/ NewSave
    \/ NewBuildClient

Spec == Init /\ [][Next]_vars

(* ---------------------------------------------------------------- claims *)

\* The current call of New has taken step e.
Has(e) == \E i \in 1..Len(trace) : trace[i] = e

\* Step a precedes step b in the current call of New.
Before(a, b) ==
    \E i \in 1..Len(trace), j \in 1..Len(trace) :
        i < j /\ trace[i] = a /\ trace[j] = b

\* Get returned for a response that was read to its end.
GotResponse ==
    result # Nil /\ result.op = "Get" /\ result.out.k = "ok"

\* C1: for a response whose status is in the error-code set Get returns a
\* typed response error (a non-nil error) instead of the bytes; for any other
\* status it returns the body unchanged and no error.
C1_GetTypedErrorBySet ==
    GotResponse =>
        IF codeIsError(result.out.status)
        THEN result.err # Nil /\ result.err = UnmarshalRespError(result.out.body)
        ELSE result.err = Nil /\ result.body = result.out.body

\* C2: the exchange is attempted only when the state of the callback URL
\* equals the generated state exactly; with any other state (a missing or
\* empty one too) the flow is Failed: no exchange, no write of the token file,
\* no client.
C2_ExchangeOnlyOnEqualState ==
    /\ Has("exchange") =>
          Has("check") /\ QueryGet(responseURL, "state") = state
    /\ (Has("check") /\ QueryGet(responseURL, "state") # state) =>
          /\ pc = "Failed"
          /\ flow = "Failed"
          /\ ~Has("exchange")
          /\ exchanged = Nil
          /\ file = entryFile
          /\ ~Has("client")

\* A callback without a state parameter was rejected.
C2_Witness ==
    /\ pc = "Failed"
    /\ Has("check")
    /\ QueryGet(responseURL, "state") = <<>>
    /\ QueryGet(responseURL, "code") = Code1

\* The file holds the JSON encoding of a token and can be opened.
ValidStored(f) ==
    f.exists /\ f.readable /\ \E t \in StoreTokens : f.content = Encode(t)

\* C3: when the token file holds a valid stored token, New runs no
\* interactive flow (no state, no authorization URL, no line read, no
\* exchange), leaves the file as it is, and builds the client from the token
\* of the file.
C3_NoFlowForStoredToken ==
    (calls > 0 /\ ValidStored(entryFile)) =>
        /\ flow = "None"
        /\ state = <<>>
        /\ authURL = Nil
        /\ responseString = Nil
        /\ exchanged = Nil
        /\ \A i \in 1..Len(trace) : trace[i] \in {"load", "client"}
        /\ file = entryFile
        /\ Has("load") => \E t \in StoreTokens :
                             entryFile.content = Encode(t) /\ token = t
        /\ Has("client") => client = [token |-> token]

\* New returned a client for a file that held a token with a refresh token.
C3_Witness ==
    /\ pc = "Idle"
    /\ calls = 1
    /\ ValidStored(entryFile)
    /\ Has("client")
    /\ client = [token |-> Token("a1", "Bearer", "r1", 1)]

\* Loading the file fails: it cannot be opened, or its contents are not JSON
\* of the Token shape.
LoadFails(f) ==
    \/ ~(f.exists /\ f.readable)
    \/ f.content.k # "json"
    \/ /\ f.content.k = "json"
       /\ \/ f.content.obj.access_token.t \notin {"str", "absent"}
          \/ f.content.obj.token_type.t \notin {"str", "absent"}
          \/ f.content.obj.refresh_token.t \notin {"str", "absent"}
          \/ f.content.obj.expiry.t \notin {"time", "absent"}

\* C4: whenever loading the token file fails (the file cannot be opened, or
\* its contents do not decode), New enters the authorization flow.
C4_LoadFailureEntersFlow ==
    (calls > 0 /\ Has("load") /\ LoadFails(entryFile)) => flow # "None"

\* C5: writeTokenToFile(p, t) followed by readTokenFromFile(p) returns t and
\* no error, whatever p held before.
C5_RoundTrip ==
    pc = "StoreDone" => result = [token |-> token, err |-> FALSE]

\* C6: after a call of New that ran the flow to TokenObtained, a later call
\* of New loads the token that flow saved and skips the flow.
C6_LaterCallLoadsSavedToken ==
    (obtained # Nil /\ Has("load") /\ ~Has("create")) =>
        flow = "None" /\ token = obtained

C8_WriteFailureIsFatal ==
    (Has("create-failed") \/ Has("encode-failed")) =>
        pc = "Failed" /\ ~Has("client")

\* C9: for a response with an error status and a structured error body, Get
\* returns a RespError whose Code, Message, RequestId and Date are those of
\* the body.
C9_RespErrorFieldsMatch ==
    (GotResponse /\ codeIsError(result.out.status)
                 /\ result.out.body = JBody(ErrorFixture)) =>
        result.err = [Err |-> [Code |-> "TooManyRequests",
                               Message |-> "slow down",
                               InnerError |-> [RequestId |-> "abc",
                                               Date |-> "2024-01-01"]]]

\* An API operation returned.
Operated ==
    result # Nil /\ result.op \in {"GetMyDrive", "ListMyDrives", "ListRecentFiles"}

\* The zero value of an operation's result type.
ZeroOf(op) == IF op = "GetMyDrive" THEN ZeroDrive ELSE ZeroList

\* C10: each API operation makes one Get, to its fixed endpoint, and returns
\* after that response is read; when Get fails it returns Get's error and the
\* zero value; when the bytes are not JSON of the result type it returns a
\* decode error.
C10_OperationContract ==
    Operated =>
        /\ Len(requests) = 1
        /\ result.op = "GetMyDrive" =>
              requests[1] = "https://graph.microsoft.com/v1.0/me/drive"
        /\ result.op = "ListMyDrives" =>
              requests[1] = "https://graph.microsoft.com/v1.0/me/drives"
        /\ result.op = "ListRecentFiles" =>
              requests[1] = "https://graph.microsoft.com/v1.0/me/drive/recent"
        /\ result.out.k = "transport" =>
              result.err = TransportError /\ result.value = ZeroOf(result.op)
        /\ result.out.k = "readerr" =>
              result.err = ReadError /\ result.value = ZeroOf(result.op)
        /\ result.out.k = "ok" =>
              /\ result.body = result.out.body
              /\ result.out.body \in {Malformed, JBody(JArr(<<>>))} =>
                    result.err = DecodeError
              /\ (result.op = "GetMyDrive" /\ result.out.body = JBody(BadDrive)) =>
                    result.err = DecodeError
              /\ (result.op = "GetMyDrive" /\ result.out.body = JBody(DriveFixture)) =>
                    /\ result.err = Nil
                    /\ result.value = Drive("d1", "personal",
                                            [Total |-> 10, Used |-> 3])

\* ListRecentFiles got bytes that are no JSON and returned a decode error.
C10_Witness ==
    /\ Operated
    /\ result.op = "ListRecentFiles"
    /\ result.out.k = "ok"
    /\ result.out.body = Malformed
    /\ result.err = DecodeError
    /\ requests = <<RecentURL>>

\* The steps of a call of New that runs the flow to its end, in order; the
\* last step of the save is "encode" or "encode-failed".
FlowRun(e) ==
    <<"load", "state", "print", "read", "parse", "check", "exchange",
      "create", e, "client">>

\* s is t or a beginning of t.
IsPrefix(s, t) == Len(s) <= Len(t) /\ SubSeq(t, 1, Len(s)) = s

\* The steps taken are a beginning of a run of the flow, or such a beginning
\* up to the exchange followed by the failed os.Create.
InFlowOrder(tr) ==
    \/ \E e \in {"encode", "encode-failed"} : IsPrefix(tr, FlowRun(e))
    \/ tr = SubSeq(FlowRun("encode"), 1, 7) \o <<"create-failed">>

\* C11: a run of the flow passes NoToken, AwaitingUserRedirect,
\* ExchangingCode, TokenObtained in this order, or ends in Failed, which is
\* final: the state is generated and the URL printed before the one line is
\* read, the check precedes the exchange, the exchange precedes the save,
\* and no step is taken twice.
C11_FlowOrder ==
    [][/\ pc # "Failed"
       /\ flow # "Failed"
       /\ flow' # "None" =>
             /\ InFlowOrder(trace')
             /\ \A i \in 1..Len(trace'), j \in 1..Len(trace') :
                   trace'[i] = trace'[j] => i = j
       /\ flow' # flow =>
             \/ flow = "None" /\ flow' = "NoToken" /\ trace' = <<"load">>
             \/ /\ flow = "NoToken"
                /\ flow' = "AwaitingUserRedirect"
                /\ trace' = <<"load", "state", "print">>
                /\ authURL'.state = state
             \/ /\ flow = "AwaitingUserRedirect"
                /\ flow' = "ExchangingCode"
                /\ trace' = <<"load", "state", "print", "read", "parse", "check">>
             \/ /\ flow = "ExchangingCode"
                /\ flow' = "TokenObtained"
                /\ Len(trace') = 9
                /\ exchanged # Nil
             \/ /\ flow \in {"NoToken", "AwaitingUserRedirect", "ExchangingCode"}
                /\ flow' = "Failed"
                /\ pc' = "Failed"
             \/ flow = "TokenObtained" /\ flow' = "None" /\ trace' = <<>>
      ]_vars

\* A flow ran from NoToken to TokenObtained and New returned.
C11_Witness ==
    /\ pc = "Idle"
    /\ flow = "TokenObtained"
    /\ trace = FlowRun("encode")
    /\ authURL = [state |-> state, access_type |-> "offline"]
    /\ QueryGet(responseURL, "state") = state

\* C12: a client New returns is bound to a non-nil token: the one read from
\* the file New found, when no flow ran, or the one a successful exchange of
\* this call returned; and New returns no client once it is Failed.
C12_ClientTokenOrigin ==
    /\ Has("client") =>
          /\ pc # "Failed"
          /\ flow \in {"None", "TokenObtained"}
          /\ client # Nil
          /\ client.token # Nil
          /\ flow = "None" =>
                /\ entryFile.exists
                /\ entryFile.readable
                /\ client.token = Decode(entryFile.content).token
                /\ exchanged = Nil
          /\ flow = "TokenObtained" =>
                /\ exchanged # Nil
                /\ ~exchanged.err
                /\ client.token = exchanged.token
                /\ client.token \in Tokens
    /\ (pc = "Failed" \/ flow = "Failed") =>
          /\ pc = "Failed"
          /\ flow = "Failed"
          /\ ~Has("client")

\* New returned a client bound to the token of this call's exchange.
C12_Witness ==
    /\ pc = "Idle"
    /\ Has("client")
    /\ flow = "TokenObtained"
    /\ exchanged # Nil
    /\ client = [token |-> exchanged.token]
    /\ client.token.RefreshToken = "r1"

\* C13: Error() returns a message string and does not panic for any
\* RespError decoded from a failure body, also when the body has no "error"
\* object or the "error" object no "innerError".
C13_ErrorNeverPanics ==
    pc = "ErrorDone" =>
        /\ ~result.message.panic
        /\ Len(result.message.text) > 0

====
